---- MODULE Spec2Model ----
(***************************************************************************)
(* Model of cellcutter.dataset.Dataset: construction (shape validation,    *)
(* normalisation, create_patches) and the three generator read operations. *)
(* An image is a record [shape, px]: px is the sequence of its rows, a row *)
(* the sequence of its pixels, a pixel of a 3D image the sequence of its   *)
(* channel values.  Indices in the operators are 0-based, as in the code.  *)
(***************************************************************************)
EXTENDS Integers, Sequences, FiniteSets, TLC

VARIABLES data_img, marker_img, label_img, crop_size, phase, img, patch_set, gen, out

vars == <<data_img, marker_img, label_img, crop_size, phase, img, patch_set, gen, out>>

(* ---------------------------------------------------------------- bounds *)
\* height and width of the marker image
ImgH == 4
ImgW == 5
\* marker values range over 0..MaxId
MaxId == 2
\* number of pixels that may differ from the marker's background value
MaxPix == 2
\* area_size ranges over 1..MaxArea
MaxArea == 2
\* channels of a raw image with a trailing channel axis
NumCh == 2

\* Python's None where an image is expected, and the patch store of an object
\* that was never built
None == [shape |-> <<>>, px |-> <<>>]
NoStore == <<[key |-> -1, val |-> <<>>]>>

Min2(a, b) == IF a < b THEN a ELSE b
Max2(a, b) == IF a > b THEN a ELSE b

Pos(h, w) == (0..(h - 1)) \X (0..(w - 1))

\* image[i, j] and image[i, j, c] with 0-based indices; px is a sequence of rows
At(image, i, j) == image.px[i + 1][j + 1]
At3(image, i, j, c) == image.px[i + 1][j + 1][c + 1]

\* the sequence <<F(1), ..., F(n)>>
Tabulate(n, F(_)) ==
  LET RECURSIVE T(_)
      T(k) == IF k = 0 THEN <<>> ELSE Append(T(k - 1), F(k))
  IN T(n)

\* the 2D image of shape (h, w) whose pixel (i, j) is F(i, j)
Image2(h, w, F(_, _)) ==
  [shape |-> <<h, w>>,
   px |-> Tabulate(h, LAMBDA i : Tabulate(w, LAMBDA j : F(i - 1, j - 1)))]

\* the 3D image of shape (h, w, n) whose value (i, j, c) is F(i, j, c)
Image3(h, w, n, F(_, _, _)) ==
  [shape |-> <<h, w, n>>,
   px |-> Tabulate(h, LAMBDA i : Tabulate(w, LAMBDA j :
            Tabulate(n, LAMBDA c : F(i - 1, j - 1, c - 1))))]

(* ---------------------------------------------------------------- inputs *)
RECURSIVE SubsetsUpTo(_, _)
SubsetsUpTo(S, k) ==
  IF k = 0 THEN {{}}
  ELSE LET prev == SubsetsUpTo(S, k - 1)
       IN prev \cup {s \cup {p} : s \in prev, p \in S}

\* marker images: a background value with at most MaxPix pixels of other values
MarkerImages ==
  { Image2(ImgH, ImgW, LAMBDA i, j : IF <<i, j>> \in DOMAIN f THEN f[<<i, j>>] ELSE b) :
       b \in 0..MaxId,
       f \in UNION { [s -> 0..MaxId] : s \in SubsetsUpTo(Pos(ImgH, ImgW), MaxPix) } }

RawRamp(h, w) == Image2(h, w, LAMBDA i, j : 7 + i * w + j)

\* the inputs of one construction, (data_img, label_img) for a marker image:
\* a 2D raw image without and with a label image (the marker flipped upside
\* down), a raw image with a trailing channel axis, and raw or label images
\* whose height or width differs from the marker's
ImagePairs(m) ==
  LET h == m.shape[1]
      w == m.shape[2]
  IN { <<RawRamp(h, w), None>>,
       <<RawRamp(h, w), Image2(h, w, LAMBDA i, j : At(m, h - 1 - i, j))>>,
       <<Image3(h, w, NumCh, LAMBDA i, j, c : 7 + i * w + j + 5 * c * j), None>>,
       <<RawRamp(h + 1, w), None>>,
       <<RawRamp(h, w + 1), None>>,
       <<RawRamp(h, w), Image2(h + 1, w, LAMBDA i, j : 0)>> }

CropSizes == 1..Min2(ImgH, ImgW)

(* --------------------------------------------------------------- helpers *)
RECURSIVE SumSeq(_)
\* the sum of a sequence of integers
SumSeq(q) == IF q = <<>> THEN 0 ELSE Head(q) + SumSeq(Tail(q))

SetMin(S) == CHOOSE x \in S : \A y \in S : x <= y
SetMax(S) == CHOOSE x \in S : \A y \in S : x >= y

RECURSIVE SortedSeq(_)
\* the elements of a finite set of integers in ascending order
SortedSeq(S) == IF S = {} THEN <<>> ELSE <<SetMin(S)>> \o SortedSeq(S \ {SetMin(S)})

\* Python slice lo:hi of an axis of length n, as the sequence of source indices
SliceIdx(lo, hi, n) ==
  LET l == IF lo < 0 THEN Max2(lo + n, 0) ELSE Min2(lo, n)
      u == IF hi < 0 THEN Max2(hi + n, 0) ELSE Min2(hi, n)
  IN Tabulate(Max2(u - l, 0), LAMBDA k : l + k - 1)

B2I(b) == IF b THEN 1 ELSE 0

(* ------------------------------------------------------ Dataset, helpers *)
\* __normalize_img: astype(float32), add a channel axis to a 2D image, then per
\* channel subtract the minimum and divide by the (post-subtraction) maximum.
\* A normalised value is the fraction <<num, den>>; den = 0 is numpy's 0/0 (NaN).
NormalizeImg(img_in) ==
  LET h == img_in.shape[1]
      w == img_in.shape[2]
      nch == IF Len(img_in.shape) = 2 THEN 1 ELSE img_in.shape[3]
      a == IF Len(img_in.shape) = 2
           THEN Image3(h, w, 1, LAMBDA i, j, c : At(img_in, i, j))
           ELSE img_in
      mn == Tabulate(nch, LAMBDA c : SetMin({At3(a, q[1], q[2], c - 1) : q \in Pos(h, w)}))
      mx == Tabulate(nch, LAMBDA c : SetMax({At3(a, q[1], q[2], c - 1) - mn[c] : q \in Pos(h, w)}))
  IN Image3(h, w, nch, LAMBDA i, j, c : <<At3(a, i, j, c) - mn[c + 1], mx[c + 1]>>)

\* image == ind : the boolean mask of a 2D image
EqualsInd(image, ind) ==
  Image2(image.shape[1], image.shape[2], LAMBDA i, j : At(image, i, j) = ind)

\* variant of CenterOfMassAsInt without the + .5: the mean is truncated
CenterOfMassAsInt_Truncate(mask) ==
  LET d0 == mask.shape[1]
      d1 == mask.shape[2]
      sum1 == Tabulate(d0, LAMBDA i : SumSeq(Tabulate(d1, LAMBDA j : B2I(At(mask, i - 1, j - 1)))))
      sum0 == Tabulate(d1, LAMBDA j : SumSeq(Tabulate(d0, LAMBDA i : B2I(At(mask, i - 1, j - 1)))))
      s == SumSeq(sum1)
  IN <<SumSeq(Tabulate(d0, LAMBDA i : sum1[i] * (i - 1))) \div s,
       SumSeq(Tabulate(d1, LAMBDA j : sum0[j] * (j - 1))) \div s>>

\* __center_of_mass_as_int: int(dot(projection, arange(d)) / s + .5) on each axis;
\* the operand is non-negative, so int() is floor: floor((2 * dot + s) / (2 * s))
CenterOfMassAsInt(mask) ==
  LET d0 == mask.shape[1]
      d1 == mask.shape[2]
      sum1 == Tabulate(d0, LAMBDA i : SumSeq(Tabulate(d1, LAMBDA j : B2I(At(mask, i - 1, j - 1)))))
      sum0 == Tabulate(d1, LAMBDA j : SumSeq(Tabulate(d0, LAMBDA i : B2I(At(mask, i - 1, j - 1)))))
      s == SumSeq(sum1)
      c0 == (2 * SumSeq(Tabulate(d0, LAMBDA i : sum1[i] * (i - 1))) + s) \div (2 * s)
      c1 == (2 * SumSeq(Tabulate(d1, LAMBDA j : sum0[j] * (j - 1))) + s) \div (2 * s)
  IN <<c0, c1>>

\* variant of IsWithin whose upper row bound is inclusive
IsWithin_Closed(coord, rect) ==
  /\ coord[1] >= rect[1]
  /\ coord[1] <= rect[1] + rect[3]
  /\ coord[2] >= rect[2]
  /\ coord[2] < rect[2] + rect[4]

\* __is_within(coord, rect), rect = (r0, r1, height, width)
IsWithin(coord, rect) ==
  /\ coord[1] >= rect[1]
  /\ coord[1] < rect[1] + rect[3]
  /\ coord[2] >= rect[2]
  /\ coord[2] < rect[2] + rect[4]

\* sorted((a, b, c))[1]
SortedMiddle(a, b, c) == SortSeq(<<a, b, c>>, LAMBDA x, y : x < y)[2]

\* np.unique(marker_img)[1:] : the sorted distinct values without the first
Indices(marker) ==
  Tail(SortedSeq({At(marker, p[1], p[2]) : p \in Pos(marker.shape[1], marker.shape[2])}))

\* variant of WindowOrigin that does not clip the desired origin
WindowOrigin_Unclipped(marker, size, ind) ==
  LET c == CenterOfMassAsInt(EqualsInd(marker, ind))
  IN <<c[1] - size \div 2, c[2] - size \div 2>>

\* variant of WindowOrigin that subtracts the whole crop size, not half of it
WindowOrigin_FullOffset(marker, size, ind) ==
  LET c == CenterOfMassAsInt(EqualsInd(marker, ind))
      d0 == marker.shape[1]
      d1 == marker.shape[2]
  IN <<SortedMiddle(0, c[1] - size, d0 - size),
       SortedMiddle(0, c[2] - size, d1 - size)>>

\* the window origin of object ind (lines 44-46)
WindowOrigin(marker, size, ind) ==
  LET c == CenterOfMassAsInt(EqualsInd(marker, ind))
      d0 == marker.shape[1]
      d1 == marker.shape[2]
  IN <<SortedMiddle(0, c[1] - size \div 2, d0 - size),
       SortedMiddle(0, c[2] - size \div 2, d1 - size)>>

\* image[c0:c0+size, c1:c1+size, :] of a 3D image
Crop3(image, c, size) ==
  LET rows == SliceIdx(c[1], c[1] + size, image.shape[1])
      cols == SliceIdx(c[2], c[2] + size, image.shape[2])
  IN Image3(Len(rows), Len(cols), image.shape[3],
            LAMBDA i, j, ch : At3(image, rows[i + 1], cols[j + 1], ch))

\* variant of CropEquals2 that marks the pixels of every object, not only ind
CropEquals2_AnyObject(image, c, size, ind) ==
  LET rows == SliceIdx(c[1], c[1] + size, image.shape[1])
      cols == SliceIdx(c[2], c[2] + size, image.shape[2])
  IN Image2(Len(rows), Len(cols), LAMBDA i, j : At(image, rows[i + 1], cols[j + 1]) # 0)

\* image[c0:c0+size, c1:c1+size] == ind of a 2D image
CropEquals2(image, c, size, ind) ==
  LET rows == SliceIdx(c[1], c[1] + size, image.shape[1])
      cols == SliceIdx(c[2], c[2] + size, image.shape[2])
  IN Image2(Len(rows), Len(cols), LAMBDA i, j : At(image, rows[i + 1], cols[j + 1]) = ind)

\* np.concatenate((data_patch_1, data_patch_2[..., np.newaxis]), axis = 2):
\* the boolean mask becomes the last channel, as 1 / 0
Concatenate(p1, p2) ==
  LET nch == p1.shape[3]
  IN Image3(p1.shape[1], p1.shape[2], nch + 1,
            LAMBDA i, j, c : IF c < nch THEN At3(p1, i, j, c) ELSE B2I(At(p2, i, j)))

\* .astype(np.uint8) of a boolean patch
AsUint8(patch) ==
  Image2(patch.shape[1], patch.shape[2], LAMBDA i, j : B2I(At(patch, i, j)))

\* the tuple stored for one object (lines 44-56)
PatchOf(image, marker, label, size, ind) ==
  LET c == WindowOrigin(marker, size, ind)
      data_patch == Concatenate(Crop3(image, c, size), CropEquals2(marker, c, size, ind))
  IN IF label # None
     THEN <<c, data_patch, AsUint8(CropEquals2(label, c, size, ind))>>
     ELSE <<c, data_patch>>

\* patch_set[k] = v on an insertion-ordered dict, kept as a sequence of entries
DictSet(d, k, v) ==
  IF \E i \in 1..Len(d) : d[i].key = k
  THEN [i \in 1..Len(d) |-> IF d[i].key = k THEN [key |-> k, val |-> v] ELSE d[i]]
  ELSE Append(d, [key |-> k, val |-> v])

RECURSIVE CreatePatchesLoop(_, _, _, _, _, _)
CreatePatchesLoop(d, inds, image, marker, label, size) ==
  IF inds = <<>> THEN d
  ELSE CreatePatchesLoop(DictSet(d, Head(inds), PatchOf(image, marker, label, size, Head(inds))),
                         Tail(inds), image, marker, label, size)

\* create_patches
CreatePatches(image, marker, label, size) ==
  CreatePatchesLoop(<<>>, Indices(marker), image, marker, label, size)

\* the shape test of __init__ (line 10)
ShapeMismatch(data, marker, label) ==
  \/ data.shape # marker.shape
  \/ (label # None /\ data.shape # label.shape)

Keys(d) == [i \in 1..Len(d) |-> d[i].key]

(* ----------------------------------------------------------------- state *)
NoGen == [kind |-> "none", pc |-> "done", pos |-> 0, area_size |-> 0, trace |-> <<>>]
NewGen(kind, area) == [kind |-> kind, pc |-> "start", pos |-> 0, area_size |-> area, trace |-> <<>>]

Init ==
  /\ marker_img \in MarkerImages
  /\ \E pair \in ImagePairs(marker_img) :
       /\ data_img = pair[1]
       /\ label_img = pair[2]
  /\ crop_size \in CropSizes
  /\ phase = "new"
  /\ img = None
  /\ patch_set = NoStore
  /\ gen = NoGen
  /\ out = [op |-> "none", tag |-> "none"]

\* Dataset(data_img, marker_img, label_img, crop_size)
Construct ==
  /\ phase = "new"
  /\ IF ShapeMismatch(data_img, marker_img, label_img)
     THEN /\ phase' = "failed"
          /\ out' = [op |-> "__init__", tag |-> "ValueError"]
          /\ UNCHANGED <<img, patch_set>>
     ELSE /\ phase' = "ok"
          /\ img' = NormalizeImg(data_img)
          /\ patch_set' = CreatePatches(img', marker_img, label_img, crop_size)
          /\ out' = [op |-> "__init__", tag |-> "Dataset"]
  /\ UNCHANGED <<data_img, marker_img, label_img, crop_size, gen>>

\* generator(): calling a generator function runs none of its body
GeneratorCall ==
  /\ phase = "ok"
  /\ gen' = NewGen("generator", 0)
  /\ out' = [op |-> "generator", tag |-> "generator object"]
  /\ UNCHANGED <<data_img, marker_img, label_img, crop_size, phase, img, patch_set>>

\* variant of GeneratorNext that takes each record out of the store (popitem)
GeneratorNext_Pop ==
  /\ phase = "ok"
  /\ gen.kind = "generator"
  /\ IF gen.pc # "done" /\ Len(patch_set) > 0
     THEN /\ gen' = [gen EXCEPT !.pc = "loop", !.pos = @ + 1,
                                !.trace = Append(@, patch_set[1].key)]
          /\ out' = [op |-> "next", tag |-> "yield", value |-> patch_set[1].val]
          /\ patch_set' = Tail(patch_set)
     ELSE /\ gen' = [gen EXCEPT !.pc = "done"]
          /\ out' = [op |-> "next", tag |-> "StopIteration"]
          /\ patch_set' = patch_set
  /\ UNCHANGED <<data_img, marker_img, label_img, crop_size, phase, img>>

\* next() on generator(): the loop over patch_set.keys() (lines 62-63)
GeneratorNext ==
  /\ phase = "ok"
  /\ gen.kind = "generator"
  /\ IF gen.pc # "done" /\ gen.pos < Len(patch_set)
     THEN /\ gen' = [gen EXCEPT !.pc = "loop", !.pos = @ + 1,
                                !.trace = Append(@, patch_set[gen.pos + 1].key)]
          /\ out' = [op |-> "next", tag |-> "yield", value |-> patch_set[gen.pos + 1].val]
     ELSE /\ gen' = [gen EXCEPT !.pc = "done"]
          /\ out' = [op |-> "next", tag |-> "StopIteration"]
  /\ UNCHANGED <<data_img, marker_img, label_img, crop_size, phase, img, patch_set>>

\* generator_with_label(): also a generator function, so the call itself runs
\* nothing, not even the test of label_img
GeneratorWithLabelCall ==
  /\ phase = "ok"
  /\ gen' = NewGen("generator_with_label", 0)
  /\ out' = [op |-> "generator_with_label", tag |-> "generator object"]
  /\ UNCHANGED <<data_img, marker_img, label_img, crop_size, phase, img, patch_set>>

\* next() on generator_with_label(): the first one runs the test of label_img
\* (lines 83-84); a generator that raised is finished
GeneratorWithLabelNext ==
  /\ phase = "ok"
  /\ gen.kind = "generator_with_label"
  /\ IF gen.pc = "start" /\ label_img = None
     THEN /\ gen' = [gen EXCEPT !.pc = "done"]
          /\ out' = [op |-> "next", tag |-> "ValueError"]
     ELSE IF gen.pc # "done" /\ gen.pos < Len(patch_set)
     THEN /\ gen' = [gen EXCEPT !.pc = "loop", !.pos = @ + 1,
                                !.trace = Append(@, patch_set[gen.pos + 1].key)]
          /\ out' = [op |-> "next", tag |-> "yield",
                     value |-> <<patch_set[gen.pos + 1].val[2], patch_set[gen.pos + 1].val[3]>>]
     ELSE /\ gen' = [gen EXCEPT !.pc = "done"]
          /\ out' = [op |-> "next", tag |-> "StopIteration"]
  /\ UNCHANGED <<data_img, marker_img, label_img, crop_size, phase, img, patch_set>>

\* generator_within_area(rng, area_size)
GeneratorWithinAreaCall ==
  /\ phase = "ok"
  /\ \E area_size \in 1..MaxArea : gen' = NewGen("generator_within_area", area_size)
  /\ out' = [op |-> "generator_within_area", tag |-> "generator object"]
  /\ UNCHANGED <<data_img, marker_img, label_img, crop_size, phase, img, patch_set>>

\* list(filter(lambda k: __is_within(patch_set[k][0], (a0, a1, area, area)), keys))
AllIndices(d, a0, a1, area_size) ==
  SelectSeq(Keys(d), LAMBDA k :
    \E i \in 1..Len(d) : d[i].key = k /\ IsWithin(d[i].val[1], <<a0, a1, area_size, area_size>>))

DictGet(d, k) == d[CHOOSE i \in 1..Len(d) : d[i].key = k].val

\* one pass of the loop body with anchor (a0, a1) (lines 112-120).  With no
\* index selected, np.array([]) has shape (0,) and subtracting the shape (2,)
\* anchor raises ValueError (shapes that do not broadcast).
AreaElement(d, a0, a1, area_size) ==
  LET all_indices == AllIndices(d, a0, a1, area_size)
      coords == [n \in 1..Len(all_indices) |-> DictGet(d, all_indices[n])[1]]
      data == [n \in 1..Len(all_indices) |-> DictGet(d, all_indices[n])[2]]
  IN IF all_indices = <<>>
     THEN [op |-> "next", tag |-> "ValueError", anchor |-> <<a0, a1>>]
     ELSE [op |-> "next", tag |-> "yield", anchor |-> <<a0, a1>>,
           value |-> <<data, [n \in 1..Len(coords) |->
                                <<coords[n][1] - a0, coords[n][2] - a1>>]>>]

\* next() on generator_within_area(): rng.integers(n) draws from 0..n-1 and
\* raises ValueError when n <= 0; a generator that raised is finished
GeneratorWithinAreaNext ==
  /\ phase = "ok"
  /\ gen.kind = "generator_within_area"
  /\ LET n0 == marker_img.shape[1] - gen.area_size - crop_size
         n1 == marker_img.shape[2] - gen.area_size - crop_size
     IN IF gen.pc = "done"
        THEN /\ out' = [op |-> "next", tag |-> "StopIteration"]
             /\ gen' = gen
        ELSE IF n0 <= 0 \/ n1 <= 0
        THEN /\ out' = [op |-> "next", tag |-> "ValueError"]
             /\ gen' = [gen EXCEPT !.pc = "done"]
        ELSE \E a0 \in 0..(n0 - 1), a1 \in 0..(n1 - 1) :
               /\ out' = AreaElement(patch_set, a0, a1, gen.area_size)
               /\ gen' = [gen EXCEPT !.pc = IF out'.tag = "yield" THEN "loop" ELSE "done"]
  /\ UNCHANGED <<data_img, marker_img, label_img, crop_size, phase, img, patch_set>>

Next ==
  \/ Construct
  \/ GeneratorCall
  \/ GeneratorNext
  \/ GeneratorWithLabelCall
  \/ GeneratorWithLabelNext
  \/ GeneratorWithinAreaCall
  \/ GeneratorWithinAreaNext

Spec == Init /\ [][Next]_vars

\* construction alone, for the claims about what create_patches stores
NextBuild == Construct

SpecBuild == Init /\ [][NextBuild]_vars

(* ------------------------------------------------- vocabulary of the claims *)
H == marker_img.shape[1]
W == marker_img.shape[2]
Built == phase = "ok"
Records == 1..Len(patch_set)
Coord(n) == patch_set[n].val[1]
Data(n) == patch_set[n].val[2]

\* the pixels of object k, the sum of their indices along an axis, and their
\* mean index along that axis rounded half-up
ObjectPixels(k) == {p \in Pos(H, W) : At(marker_img, p[1], p[2]) = k}

RECURSIVE SumAxis(_, _)
SumAxis(S, axis) ==
  IF S = {} THEN 0
  ELSE LET p == CHOOSE q \in S : TRUE IN p[axis] + SumAxis(S \ {p}, axis)

RoundedMean(k, axis) ==
  LET n == Cardinality(ObjectPixels(k))
      t == SumAxis(ObjectPixels(k), axis)
  IN CHOOSE m \in 0..Max2(H, W) : 2 * n * m <= 2 * t + n /\ 2 * t + n < 2 * n * (m + 1)

Clamp(x, lo, hi) == IF x < lo THEN lo ELSE IF x > hi THEN hi ELSE x

PositiveValues == {v \in {At(marker_img, p[1], p[2]) : p \in Pos(H, W)} : v > 0}

\* every row of a tensor has the length its shape declares
FullShape3(t, h, w, n) ==
  /\ t.shape = <<h, w, n>>
  /\ Len(t.px) = h
  /\ \A i \in 1..Len(t.px) :
       /\ Len(t.px[i]) = w
       /\ \A j \in 1..Len(t.px[i]) : Len(t.px[i][j]) = n

(* --------------------------------------------------------------------- C1 *)
\* C1: every stored Patch Record has a coordinate (r, c) with 0 <= r <= H - S
\* and 0 <= c <= W - S, and its data tensor has exactly S x S x (C+1) elements.
C1_WindowInsideImage ==
  Built =>
    \A n \in Records :
      /\ 0 <= Coord(n)[1] /\ Coord(n)[1] <= H - crop_size
      /\ 0 <= Coord(n)[2] /\ Coord(n)[2] <= W - crop_size
      /\ FullShape3(Data(n), crop_size, crop_size, img.shape[3] + 1)

\* an object in the bottom-right corner whose window had to be shifted inward
C1_Witness ==
  /\ Built
  /\ crop_size = 3
  /\ \E n \in Records :
       /\ ObjectPixels(patch_set[n].key) = {<<H - 1, W - 1>>}
       /\ Coord(n) = <<H - 3, W - 3>>

(* --------------------------------------------------------------------- C2 *)
\* C2: the keys of the patch store are exactly the distinct positive values of
\* the marker image, and a complete full enumeration yields each exactly once,
\* also for a marker image without any 0 pixel.
C2_KeysArePositiveValues ==
  Built =>
    /\ {patch_set[n].key : n \in Records} = PositiveValues
    /\ (gen.kind = "generator" /\ gen.pc = "done") =>
         /\ {gen.trace[n] : n \in 1..Len(gen.trace)} = PositiveValues
         /\ Len(gen.trace) = Cardinality(PositiveValues)

(* --------------------------------------------------------------------- C3 *)
Spatial(image) == <<image.shape[1], image.shape[2]>>

\* C3: construction fails exactly when the spatial dimensions (H, W) of the raw
\* image differ from the marker's or from a supplied label image's (so a raw
\* image with a trailing channel axis is accepted), and a failed construction
\* produces no extractor and no patch store.
C3_FailsIffSpatialMismatch ==
  phase # "new" =>
    /\ phase = "failed" <=>
         \/ Spatial(data_img) # Spatial(marker_img)
         \/ (label_img # None /\ Spatial(data_img) # Spatial(label_img))
    /\ phase = "failed" => (img = None /\ patch_set = NoStore)

(* --------------------------------------------------------------------- C4 *)
\* C4: on an extractor built without a label image, every invocation of
\* generator_with_label fails at the point of the invocation, no (data, label)
\* pair is ever produced, and the patch store is unchanged.
C4_FailsAtInvocation ==
  (Built /\ label_img = None) =>
    /\ out.op = "generator_with_label" => out.tag = "ValueError"
    /\ gen.kind = "generator_with_label" => out.tag # "yield"

(* --------------------------------------------------------------------- C5 *)
\* C5: when area_size + crop_size < min(H, W), every pull of
\* generator_within_area yields an element and leaves the generator able to
\* serve the next pull, also when the drawn rectangle holds no coordinate.
C5_EveryPullYields ==
  (Built /\ gen.kind = "generator_within_area" /\ out.op = "next"
         /\ gen.area_size + crop_size < Min2(H, W)) =>
    /\ out.tag = "yield"
    /\ gen.pc # "done"

(* --------------------------------------------------------------------- C6 *)
InRectangle(coord, anchor, size) ==
  /\ anchor[1] <= coord[1] /\ coord[1] < anchor[1] + size
  /\ anchor[2] <= coord[2] /\ coord[2] < anchor[2] + size

\* the store positions whose coordinate lies in the rectangle, in store order
RecordsInRectangle(anchor, size) ==
  SelectSeq([n \in Records |-> n], LAMBDA n : InRectangle(Coord(n), anchor, size))

\* C6: an element yielded by generator_within_area for anchor (a0, a1), drawn
\* from [0, H - area - crop) x [0, W - area - crop), stacks exactly the stored
\* records whose coordinate lies in [a0, a0+area) x [a1, a1+area), in store
\* order, and every relative coordinate is coordinate - anchor, in [0, area).
C6_StackIsRectangleContent ==
  (Built /\ gen.kind = "generator_within_area" /\ out.tag = "yield") =>
    LET sel == RecordsInRectangle(out.anchor, gen.area_size)
        data == out.value[1]
        coords == out.value[2]
    IN /\ out.anchor[1] \in 0..(H - gen.area_size - crop_size - 1)
       /\ out.anchor[2] \in 0..(W - gen.area_size - crop_size - 1)
       /\ Len(data) = Len(sel)
       /\ Len(coords) = Len(sel)
       /\ \A n \in 1..Len(sel) :
            /\ data[n] = Data(sel[n])
            /\ coords[n] = <<Coord(sel[n])[1] - out.anchor[1], Coord(sel[n])[2] - out.anchor[2]>>
            /\ coords[n][1] \in 0..(gen.area_size - 1)
            /\ coords[n][2] \in 0..(gen.area_size - 1)

\* a draw that stacks two records with different coordinates and leaves one out
C6_Witness ==
  /\ Built
  /\ gen.kind = "generator_within_area"
  /\ out.tag = "yield"
  /\ Len(out.value[1]) = 2
  /\ out.value[2][1] # out.value[2][2]
  /\ out.anchor # <<0, 0>>

(* --------------------------------------------------------------------- C7 *)
IsAscending(q) == \A n \in 1..(Len(q) - 1) : q[n] < q[n + 1]

\* C7: once built, no read operation changes the patch store (or the
\* normalised image), and every full enumeration, whatever ran before it,
\* yields the stored records from the first one on, in ascending order of
\* object identity, and ends after the last one.
C7_ReadsKeepStore ==
  /\ [][Built => (patch_set' = patch_set /\ img' = img)]_vars
  /\ [](Built /\ gen.kind = "generator" =>
          /\ Len(gen.trace) <= Len(patch_set)
          /\ gen.trace = SubSeq(Keys(patch_set), 1, Len(gen.trace))
          /\ IsAscending(gen.trace)
          /\ out.tag = "yield" => out.value = patch_set[Len(gen.trace)].val
          /\ gen.pc = "done" => gen.trace = Keys(patch_set))

\* a full enumeration that ran to its end over two records
C7_Witness ==
  /\ Built
  /\ gen.kind = "generator"
  /\ gen.pc = "done"
  /\ Len(gen.trace) = 2
  /\ Len(patch_set) = 2

(* --------------------------------------------------------------------- C8 *)
\* C8: on each axis of size d the stored coordinate of an object equals
\* clamp(m - S div 2, 0, d - S), m being the mean index of the object's pixels
\* along the axis rounded half-up.
C8_CoordinateIsClampedCentroid ==
  Built =>
    \A n \in Records :
      LET k == patch_set[n].key
      IN /\ Coord(n)[1] = Clamp(RoundedMean(k, 1) - crop_size \div 2, 0, H - crop_size)
         /\ Coord(n)[2] = Clamp(RoundedMean(k, 2) - crop_size \div 2, 0, W - crop_size)

\* a two-pixel object on the top edge whose mean column is a half (rounded up)
\* and whose desired top row is negative
C8_Witness ==
  /\ Built
  /\ crop_size = 2
  /\ \E n \in Records :
       /\ ObjectPixels(patch_set[n].key) = {<<0, 1>>, <<0, 2>>}
       /\ Coord(n) = <<0, 1>>

(* --------------------------------------------------------------------- C9 *)
\* the raw value at (i, j) in channel c, and the extremes of channel c
RawValue(i, j, c) ==
  IF Len(data_img.shape) = 2 THEN At(data_img, i, j) ELSE At3(data_img, i, j, c)
RawMin(c) == SetMin({RawValue(p[1], p[2], c) : p \in Pos(H, W)})
RawMax(c) == SetMax({RawValue(p[1], p[2], c) : p \in Pos(H, W)})

\* C9: in the record of object k with coordinate (r, c), the last channel at
\* (i, j) is 1 if marker[r+i][c+j] = k and 0 otherwise, the first channels are
\* the normalised raw values at (r+i, c+j), and the label at (i, j) is 1 if
\* label_img[r+i][c+j] = k and 0 otherwise; without a label image the record
\* has no label.
C9_PatchContent ==
  Built =>
    \A n \in Records :
      LET k == patch_set[n].key
          r == Coord(n)[1]
          c == Coord(n)[2]
          nch == img.shape[3]
      IN /\ \A i \in 0..(crop_size - 1), j \in 0..(crop_size - 1) :
              /\ At3(Data(n), i, j, nch) = B2I(At(marker_img, r + i, c + j) = k)
              /\ \A ch \in 0..(nch - 1) :
                   At3(Data(n), i, j, ch) =
                     <<RawValue(r + i, c + j, ch) - RawMin(ch), RawMax(ch) - RawMin(ch)>>
              /\ label_img # None =>
                   At(patch_set[n].val[3], i, j) = B2I(At(label_img, r + i, c + j) = k)
         /\ Len(patch_set[n].val) = IF label_img = None THEN 2 ELSE 3

\* a labelled record whose window, away from the image origin, also holds a
\* pixel of another object
C9_Witness ==
  /\ Built
  /\ label_img # None
  /\ \E n \in Records :
       /\ Coord(n)[1] > 0 /\ Coord(n)[2] > 0
       /\ \E i \in 0..(crop_size - 1), j \in 0..(crop_size - 1) :
            /\ At(marker_img, Coord(n)[1] + i, Coord(n)[2] + j) \notin {0, patch_set[n].key}
            /\ At3(Data(n), i, j, img.shape[3]) = 0
       /\ \E i \in 0..(crop_size - 1), j \in 0..(crop_size - 1) :
            At(patch_set[n].val[3], i, j) # At3(Data(n), i, j, img.shape[3])

(* -------------------------------------------------------------------- C10 *)
\* C10: the rounded centroid (m0, m1) of an object lies inside its own crop
\* window: coordinate[0] <= m0 < coordinate[0] + S, and the same for axis 1,
\* also when the window was shifted inward.
C10_CentroidInsideWindow ==
  Built =>
    \A n \in Records :
      LET m == CenterOfMassAsInt(EqualsInd(marker_img, patch_set[n].key))
      IN /\ Coord(n)[1] <= m[1] /\ m[1] < Coord(n)[1] + crop_size
         /\ Coord(n)[2] <= m[2] /\ m[2] < Coord(n)[2] + crop_size

\* an object in the top-right corner: its window was shifted on both axes
C10_Witness ==
  /\ Built
  /\ crop_size = 3
  /\ \E n \in Records :
       /\ ObjectPixels(patch_set[n].key) = {<<0, W - 1>>}
       /\ Coord(n) = <<0, W - 3>>

====
